---- MODULE Spec2Model ----
(***************************************************************************)
(* Model of alexpolo1/pdftoaudiobook.                                      *)
(*                                                                         *)
(*   src/pdfaudio.py     the TOC-driven pipeline: front-matter scan,       *)
(*                       chapter resolution, text files, eSpeak batch,     *)
(*                       ffmetadata manifest, ffmpeg merge                 *)
(*   src/audiophyton.py  the Tk/pygame player: play, pause, resume,        *)
(*                       next chapter, bookmarks                           *)
(*                                                                         *)
(* Text is a sequence of character codes (65 = "A", 10 = newline,          *)
(* 32 = space, 95 = "_", 48..57 = "0".."9"), so that substring search,     *)
(* file-name formatting and the lexicographic order of sorted() are        *)
(* computed the way Python computes them.  Page numbers are 0-based as in  *)
(* the code; page p of the document is pages[p + 1].                       *)
(***************************************************************************)
EXTENDS Integers, Sequences, FiniteSets, TLC

\* ------------------------------------------------------------------ bounds

\* SpecResolve: pages of the document
MaxPages == 3
\* SpecPipeline: chapters listed by the table of contents of the document
MaxChapters == 11
\* SpecPipeline: environment faults (failed writes, unreadable segments) per run
MaxFaults == 1
\* SpecManifest: length of the segment list and the longest duration (ms)
MaxSegments == 3
MaxDuration == 2
\* SpecPlayer: the highest chapter number and the longest bookmark log
MaxChapterNo == 4
MaxBookmarks == 2
\* SpecPlayer, SpecChaptering: pages of the PDF handed to pdf_to_audiobook
MaxPdfPages == 21
\* SpecChaptering: the largest pages_per_chapter tried besides the default
MaxPerChapter == 4

\* ------------------------------------------------------------------- state

VARIABLES
    \* ---- pdfaudio.py: one run of process_pdf_to_audiobook
    pc,                  \* position of the run
    error,               \* the message of the sys.exit(1) taken, "" if none
    pages,               \* the document: page texts
    start_page,          \* --start-page   (1-indexed)
    end_page,            \* --end-page     (1-indexed)
    content_start_page,  \* --content-start-page (1-indexed)
    chapters,            \* parse_toc's result: candidate titles
    extracted_chapters,  \* extract_chapter_texts' result
    text_folder,         \* output/text_files: file name -> content
    audio_folder,        \* output/audio_files: file name -> segment
    saved,               \* names save_chapters wrote in this run
    tasks,               \* the task list of step 4 (text file names)
    next_task,           \* index of the task the loop is at
    attempted,           \* text files handed to text_to_speech so far
    failed,              \* text files whose text_to_speech raised
    faults,              \* environment faults met so far in this run
    manifest,            \* chapters.txt: the [CHAPTER] entries
    filelist,            \* filelist.txt: the concatenation list
    \* ---- create_chapters_metadata on a drawn segment list
    audio_files,         \* its argument
    \* ---- audiophyton.py: the player
    current_chapter,     \* global current_chapter
    mixer_init,          \* pygame.mixer.init() has run
    music,               \* "stopped" | "playing" | "paused"
    busy_when_paused,    \* get_busy() while paused: TRUE pygame 1, FALSE >= 2.0.1
    dir_exists,          \* the directory "audiobook" exists
    segments,            \* chapter numbers n with audiobook/Chapter_n.mp3
    bookmarks,           \* lines of audiobook/bookmarks.txt
    last_op,             \* the last player callback and how it ended
    \* ---- audiophyton.py: one call of pdf_to_audiobook
    loop_pc,             \* "idle" | "loop" | "done" | "raised"
    loop_num_pages,      \* its num_pages: len(reader.pages)
    loop_per_chapter,    \* its parameter pages_per_chapter
    loop_chapter,        \* its local chapter
    loop_start_page,     \* its local start_page
    generated            \* the Chapter_<n>.mp3 made, each with the pages read

pipeVars == <<pc, error, pages, start_page, end_page, content_start_page,
              chapters, extracted_chapters, text_folder, audio_folder, saved,
              tasks, next_task, attempted, failed, faults, manifest, filelist>>
loopVars == <<loop_pc, loop_num_pages, loop_per_chapter, loop_chapter,
              loop_start_page, generated>>
playerVars == <<current_chapter, mixer_init, music, busy_when_paused,
                dir_exists, segments, bookmarks, last_op, loopVars>>
vars == <<pipeVars, audio_files, playerVars>>

\* ---------------------------------------------------------------- strings

Min(a, b) == IF a <= b THEN a ELSE b

\* TRUE, once v has been computed: a loop's accumulator is computed at every
\* round, as in the code, instead of being carried along as a pending expression
Evaluated(v) == v = v

RECURSIVE Concat(_)
\* ''.join(seqs)
Concat(seqs) ==
    IF seqs = <<>> THEN <<>> ELSE Head(seqs) \o Concat(Tail(seqs))

\* s in t, for strings
IsSubstring(s, t) ==
    \E i \in 0..(Len(t) - Len(s)) : SubSeq(t, i + 1, i + Len(s)) = s

\* str.isspace() on the characters the model uses
IsSpace(c) == c \in {32, 10}

\* c.isalnum() for ASCII
IsAlnum(c) == c \in (48..57) \cup (65..90) \cup (97..122)

RECURSIVE LStrip(_)
LStrip(s) ==
    IF s # <<>> /\ IsSpace(Head(s)) THEN LStrip(Tail(s)) ELSE s

RECURSIVE RStrip(_)
\* str.rstrip()
RStrip(s) ==
    IF s # <<>> /\ IsSpace(s[Len(s)]) THEN RStrip(SubSeq(s, 1, Len(s) - 1)) ELSE s

\* str.strip()
Strip(s) == LStrip(RStrip(s))

RECURSIVE SplitLines(_, _)
\* str.splitlines(): cur is the line being read
SplitLines(s, cur) ==
    IF s = <<>> THEN (IF cur = <<>> THEN <<>> ELSE <<cur>>)
    ELSE IF Head(s) = 10 THEN <<cur>> \o SplitLines(Tail(s), <<>>)
    ELSE SplitLines(Tail(s), Append(cur, Head(s)))

RECURSIVE Digits(_)
\* str(n) for n >= 0
Digits(n) ==
    IF n < 10 THEN <<48 + n>> ELSE Digits(n \div 10) \o <<48 + (n % 10)>>

RECURSIVE LexLess(_, _)
\* a < b for Python strings
LexLess(a, b) ==
    IF b = <<>> THEN FALSE
    ELSE IF a = <<>> THEN TRUE
    ELSE IF Head(a) # Head(b) THEN Head(a) < Head(b)
    ELSE LexLess(Tail(a), Tail(b))

\* ------------------------------------------------------- the table of contents

RECURSIVE TocText(_, _)
\* extract_toc_from_pdf: the text of pages start_page-1 .. end_page-1; a page
\* that cannot be loaded is logged and skipped
TocText(page_num, last) ==
    IF page_num >= last THEN <<>>
    ELSE (IF page_num + 1 \in DOMAIN pages THEN pages[page_num + 1] ELSE <<>>)
         \o TocText(page_num + 1, last)

extract_toc_from_pdf == TocText(start_page - 1, end_page)

RECURSIVE NonEmptyStripped(_)
NonEmptyStripped(lines) ==
    IF lines = <<>> THEN <<>>
    ELSE LET line == Strip(Head(lines)) IN
         (IF Len(line) > 0 THEN <<line>> ELSE <<>>) \o NonEmptyStripped(Tail(lines))

\* parse_toc: every non-empty stripped line is a chapter title
parse_toc(toc_text) == NonEmptyStripped(SplitLines(toc_text, <<>>))

\* ------------------------------------------------------ chapter resolution

\* chapter in chapter_pages, the dict kept as its items in insertion order
InDict(chapter, chapter_pages) ==
    \E i \in 1..Len(chapter_pages) : chapter_pages[i].title = chapter

RECURSIVE ScanPage(_, _, _, _)
\* the inner loop of the scan: for chapter in chapters
ScanPage(chs, text, page_num, chapter_pages) ==
    IF chs = <<>> THEN chapter_pages
    ELSE LET chapter == Head(chs)
             found == IF IsSubstring(chapter, text) /\ ~InDict(chapter, chapter_pages)
                      THEN Append(chapter_pages, [title |-> chapter, page |-> page_num])
                      ELSE chapter_pages
         IN  IF Evaluated(found) THEN ScanPage(Tail(chs), text, page_num, found)
             ELSE chapter_pages

RECURSIVE ScanPages(_, _, _)
\* the outer loop: for page_num in range(content_start_page - 1, total_pages)
ScanPages(chs, page_num, chapter_pages) ==
    IF page_num >= Len(pages) THEN chapter_pages
    ELSE LET found == ScanPage(chs, pages[page_num + 1], page_num, chapter_pages)
         IN  IF Evaluated(found) THEN ScanPages(chs, page_num + 1, found)
             ELSE chapter_pages

RECURSIVE InsertByPage(_, _)
\* x goes after every item whose page is <= its own: sorted() is stable
InsertByPage(sorted, x) ==
    IF sorted = <<>> THEN <<x>>
    ELSE IF Head(sorted).page <= x.page
         THEN <<Head(sorted)>> \o InsertByPage(Tail(sorted), x)
         ELSE <<x>> \o sorted

RECURSIVE SortByPage(_)
\* sorted(chapter_pages.items(), key=lambda x: x[1])
SortByPage(items) ==
    IF items = <<>> THEN <<>>
    ELSE InsertByPage(SortByPage(SubSeq(items, 1, Len(items) - 1)), items[Len(items)])

\* the end of chapter idx: the next chapter's first page, or total_pages
StopAtTotal(sorted_chapters, idx) == Len(pages)

\* (exclusive, as range(start_page, end_page) reads it)
ChapterEnd(sorted_chapters, idx) ==
    IF idx + 1 <= Len(sorted_chapters) THEN sorted_chapters[idx + 1].page
    ELSE Len(pages)

\* chapter_text: the pages start .. stop-1 joined
PageRangeText(start, stop) ==
    Concat([k \in 1..(IF stop > start THEN stop - start ELSE 0) |-> pages[start + k]])

\* extract_chapter_texts: title, text, and the page range the text was read from
extract_chapter_texts(chs) ==
    LET sorted_chapters == SortByPage(ScanPages(chs, content_start_page - 1, <<>>)) IN
    [idx \in 1..Len(sorted_chapters) |->
        [title      |-> sorted_chapters[idx].title,
         start_page |-> sorted_chapters[idx].page,
         end_page   |-> ChapterEnd(sorted_chapters, idx),
         text       |-> PageRangeText(sorted_chapters[idx].page,
                                      ChapterEnd(sorted_chapters, idx))]]

\* ------------------------------------------------------------- file names

ChapterPrefix == <<99, 104, 97, 112, 116, 101, 114, 95>>       \* "chapter_"
DotTxt == <<46, 116, 120, 116>>                                 \* ".txt"
DotMp3 == <<46, 109, 112, 51>>                                  \* ".mp3"
TempTextName == <<116, 101, 109, 112, 95, 116, 101, 120, 116>> \o DotTxt  \* "temp_text.txt"

RECURSIVE KeepSafe(_)
KeepSafe(s) ==
    IF s = <<>> THEN <<>>
    ELSE (IF IsAlnum(Head(s)) \/ Head(s) \in {32, 95} THEN <<Head(s)>> ELSE <<>>)
         \o KeepSafe(Tail(s))

\* ''.join(c for c in chapter_title if c.isalnum() or c in (' ', '_')).rstrip()
SafeTitle(chapter_title) == RStrip(KeepSafe(chapter_title))

\* f"chapter_{idx + 1}_{safe_title}.txt"; number is idx + 1
FileName(number, chapter_title) ==
    ChapterPrefix \o Digits(number) \o <<95>> \o SafeTitle(chapter_title) \o DotTxt

RECURSIVE LastDot(_)
\* position of the last "." of a name, 0 if it has none
LastDot(name) ==
    IF name = <<>> THEN 0
    ELSE IF name[Len(name)] = 46 THEN Len(name)
    ELSE LastDot(SubSeq(name, 1, Len(name) - 1))

\* Path.stem
Stem(name) ==
    IF LastDot(name) <= 1 THEN name ELSE SubSeq(name, 1, LastDot(name) - 1)

\* audio_folder / f"{text_file.stem}.mp3"
AudioName(text_file) == Stem(text_file) \o DotMp3

\* the files of a folder after name is written
WriteFile(folder, name, content) ==
    [n \in (DOMAIN folder) \cup {name} |-> IF n = name THEN content ELSE folder[n]]

\* the files of a folder after name is unlinked
Unlink(folder, name) == [n \in (DOMAIN folder) \ {name} |-> folder[n]]

NoFiles == [n \in {} |-> <<>>]

\* the least name of a non-empty set, in Python's string order
LeastName(names) ==
    CHOOSE n \in names : \A m \in names : m = n \/ LexLess(n, m)

RECURSIVE SortedNames(_)
\* sorted(text_folder.glob("*.txt")): every file of the folder ends in .txt
SortedNames(names) ==
    IF names = {} THEN <<>>
    ELSE <<LeastName(names)>> \o SortedNames(names \ {LeastName(names)})

RECURSIVE WriteChapters(_, _, _, _)
\* the loop of save_chapters: chapter idx is written unless its write fails,
\* which is logged and leaves the folder as it was
WriteChapters(chs, idx, failing, folder) ==
    IF idx > Len(chs) THEN folder
    ELSE WriteChapters(chs, idx + 1, failing,
                       IF idx \in failing THEN folder
                       ELSE WriteFile(folder, FileName(idx, chs[idx].title), chs[idx].text))

\* ----------------------------------------------------------- the manifest

\* the segment a text yields: eSpeak's output grows with the text it reads
SpokenMs(text) == Len(text)

\* audio_file.exists() and AudioSegment.from_mp3(audio_file) succeeds
IsValidAudio(folder, audio_file) ==
    audio_file \in DOMAIN folder /\ folder[audio_file].readable

RECURSIVE ValidAudioFiles(_, _)
\* valid_audio_files of create_chapters_metadata
ValidAudioFiles(folder, files) ==
    IF files = <<>> THEN <<>>
    ELSE (IF IsValidAudio(folder, Head(files)) THEN <<Head(files)>> ELSE <<>>)
         \o ValidAudioFiles(folder, Tail(files))

\* a skipped file moves the running offset as if it had been written
AdvanceAlways(folder, audio_file, time_in_ms) ==
    IF audio_file \in DOMAIN folder
    THEN time_in_ms + folder[audio_file].duration
    ELSE time_in_ms + 1

\* time_in_ms after audio_file: only a valid file advances it
Advance(folder, audio_file, time_in_ms) ==
    IF IsValidAudio(folder, audio_file)
    THEN time_in_ms + folder[audio_file].duration
    ELSE time_in_ms

RECURSIVE ChapterEntries(_, _, _)
\* the [CHAPTER] blocks written for files, from running offset time_in_ms
ChapterEntries(folder, files, time_in_ms) ==
    IF files = <<>> THEN <<>>
    ELSE LET audio_file == Head(files) IN
         (IF IsValidAudio(folder, audio_file)
          THEN <<[START |-> time_in_ms,
                  END   |-> time_in_ms + folder[audio_file].duration,
                  title |-> Stem(audio_file)]>>
          ELSE <<>>)
         \o ChapterEntries(folder, Tail(files), Advance(folder, audio_file, time_in_ms))

\* ------------------------------------------- process_pdf_to_audiobook, by step

NoChaptersIdentified == "No chapters were identified"
CriticalError == "An error occurred during text-to-speech conversion"
NoAudioProduced == "No audio files were generated"
NoValidAudioFiles == "No valid audio files found for metadata creation"
FFmpegFailed == "FFmpeg command failed"

\* steps 1 and 2: the front-matter scan; no title at all ends the run
ParseToc ==
    /\ pc = "start"
    /\ chapters' = parse_toc(extract_toc_from_pdf)
    /\ IF chapters' = <<>>
       THEN pc' = "exit" /\ error' = NoChaptersIdentified
       ELSE pc' = "parsed" /\ error' = error
    /\ UNCHANGED <<pages, start_page, end_page, content_start_page,
                   extracted_chapters, text_folder, audio_folder, saved, tasks,
                   next_task, attempted, failed, faults, manifest, filelist,
                   audio_files, playerVars>>

\* step 3, first half: extract_chapter_texts
ExtractChapterTexts ==
    /\ pc = "parsed"
    /\ extracted_chapters' = extract_chapter_texts(chapters)
    /\ pc' = "extracted"
    /\ UNCHANGED <<error, pages, start_page, end_page, content_start_page,
                   chapters, text_folder, audio_folder, saved, tasks,
                   next_task, attempted, failed, faults, manifest, filelist,
                   audio_files, playerVars>>

\* step 3, second half: save_chapters; the writes in failing raise and are logged
SaveChapters ==
    /\ pc = "extracted"
    /\ \E failing \in SUBSET (1..Len(extracted_chapters)) :
          /\ faults + Cardinality(failing) <= MaxFaults
          /\ faults' = faults + Cardinality(failing)
          /\ text_folder' = WriteChapters(extracted_chapters, 1, failing, text_folder)
          /\ saved' = {FileName(idx, extracted_chapters[idx].title) :
                          idx \in (1..Len(extracted_chapters)) \ failing}
    /\ pc' = "saved"
    /\ UNCHANGED <<error, pages, start_page, end_page, content_start_page,
                   chapters, extracted_chapters, audio_folder, tasks,
                   next_task, attempted, failed, manifest, filelist,
                   audio_files, playerVars>>

\* sorted() by file name, as Python orders strings
ListTextFiles(folder) == SortedNames(DOMAIN folder)

\* step 4, the task list: text_files = sorted(text_folder.glob("*.txt"))
BuildTasks ==
    /\ pc = "saved"
    /\ tasks' = ListTextFiles(text_folder)
    /\ audio_files' = [k \in 1..Len(tasks') |-> AudioName(tasks'[k])]
    /\ next_task' = 1
    /\ pc' = "synth"
    /\ UNCHANGED <<error, pages, start_page, end_page, content_start_page,
                   chapters, extracted_chapters, text_folder, audio_folder, saved,
                   attempted, failed, faults, manifest, filelist, playerVars>>

\* text_to_speech returns: the text went through temp_text.txt and eSpeak, the
\* mp3 is exported, and the temporary files are unlinked
TextToSpeechOk ==
    /\ pc = "synth"
    /\ next_task <= Len(tasks)
    /\ tasks[next_task] \in DOMAIN text_folder
    /\ LET text_file == tasks[next_task]
           text == text_folder[text_file]
       IN  /\ text_folder' = Unlink(WriteFile(text_folder, TempTextName, text), TempTextName)
           /\ \E readable \in BOOLEAN :
                 /\ readable \/ faults < MaxFaults
                 /\ faults' = IF readable THEN faults ELSE faults + 1
                 /\ audio_folder' = WriteFile(audio_folder, audio_files[next_task],
                                              [duration |-> SpokenMs(text), readable |-> readable])
           /\ attempted' = Append(attempted, text_file)
    /\ next_task' = next_task + 1
    /\ UNCHANGED <<pc, error, pages, start_page, end_page, content_start_page,
                   chapters, extracted_chapters, saved, tasks, failed,
                   manifest, filelist, audio_files, playerVars>>

\* text_to_speech raises, while reading the text file ("read") or in eSpeak or
\* the export ("synth", temp_text.txt is left behind); the partial mp3 is
\* unlinked, the exception is re-raised, and the caller's except exits
TextToSpeechRaises ==
    /\ pc = "synth"
    /\ next_task <= Len(tasks)
    /\ LET text_file == tasks[next_task] IN
       \E stage \in {"read", "synth"} :
          /\ text_file \notin DOMAIN text_folder => stage = "read"
          /\ text_folder' = IF stage = "synth"
                            THEN WriteFile(text_folder, TempTextName, text_folder[text_file])
                            ELSE text_folder
          /\ audio_folder' = Unlink(audio_folder, audio_files[next_task])
          /\ attempted' = Append(attempted, text_file)
          /\ failed' = failed \cup {text_file}
    /\ pc' = "exit"
    /\ error' = CriticalError
    /\ UNCHANGED <<pages, start_page, end_page, content_start_page, chapters,
                   extracted_chapters, saved, tasks, next_task, faults,
                   manifest, filelist, audio_files, playerVars>>

\* after the loop: if not any(audio_file.exists() for audio_file in audio_files)
FinishBatch ==
    /\ pc = "synth"
    /\ next_task > Len(tasks)
    /\ IF \A k \in 1..Len(audio_files) : audio_files[k] \notin DOMAIN audio_folder
       THEN pc' = "exit" /\ error' = NoAudioProduced
       ELSE pc' = "metadata" /\ error' = error
    /\ UNCHANGED <<pages, start_page, end_page, content_start_page, chapters,
                   extracted_chapters, text_folder, audio_folder, saved, tasks,
                   next_task, attempted, failed, faults, manifest, filelist,
                   audio_files, playerVars>>

\* step 5: create_chapters_metadata; audio_files becomes the valid files
CreateChaptersMetadata ==
    /\ pc = "metadata"
    /\ manifest' = ChapterEntries(audio_folder, audio_files, 0)
    /\ LET valid_audio_files == ValidAudioFiles(audio_folder, audio_files) IN
       IF valid_audio_files = <<>>
       THEN pc' = "exit" /\ error' = NoValidAudioFiles /\ audio_files' = audio_files
       ELSE pc' = "merge" /\ error' = error /\ audio_files' = valid_audio_files
    /\ UNCHANGED <<pages, start_page, end_page, content_start_page, chapters,
                   extracted_chapters, text_folder, audio_folder, saved, tasks,
                   next_task, attempted, failed, faults, filelist, playerVars>>

\* step 6: merge_audio_with_chapters; filelist.txt, then ffmpeg twice
MergeAudio ==
    /\ pc = "merge"
    /\ audio_files # <<>>
    /\ filelist' = audio_files
    /\ \E ffmpeg_ok \in BOOLEAN :
          IF ffmpeg_ok
          THEN pc' = "done" /\ error' = error
          ELSE pc' = "exit" /\ error' = FFmpegFailed
    /\ UNCHANGED <<pages, start_page, end_page, content_start_page, chapters,
                   extracted_chapters, text_folder, audio_folder, saved, tasks,
                   next_task, attempted, failed, faults, manifest, audio_files,
                   playerVars>>

\* -------------------------------------------------------------- the player

\* pdf_to_audiobook(pdf_path, pages_per_chapter=10), as select_pdf calls it
PagesPerChapter == 10

\* no call of pdf_to_audiobook is under way
LoopIdle ==
    /\ loop_pc = "idle"
    /\ loop_num_pages = 0
    /\ loop_per_chapter = PagesPerChapter
    /\ loop_chapter = 1
    /\ loop_start_page = 0
    /\ generated = <<>>

PlayerIdle ==
    /\ LoopIdle
    /\ current_chapter = 1
    /\ mixer_init = FALSE
    /\ music = "stopped"
    /\ busy_when_paused = FALSE
    /\ dir_exists = FALSE
    /\ segments = {}
    /\ bookmarks = <<>>
    /\ last_op = [op |-> "none", result |-> "ok"]

\* ------------------------------------------------------- initial states

\* a run that has not started, on an output folder holding text_files
RunNotStarted(folder) ==
    /\ pc = "start"
    /\ error = ""
    /\ chapters = <<>>
    /\ extracted_chapters = <<>>
    /\ text_folder = folder
    /\ audio_folder = NoFiles
    /\ saved = {}
    /\ tasks = <<>>
    /\ next_task = 1
    /\ attempted = <<>>
    /\ failed = {}
    /\ faults = 0
    /\ manifest = <<>>
    /\ filelist = <<>>
    /\ audio_files = <<>>

\* page texts of the small documents: "", "A", "B", "A\nB", "B\nA", "AB", " A \n\n"
PageTexts ==
    {<<>>, <<65>>, <<66>>, <<65, 10, 66>>, <<66, 10, 65>>, <<65, 66>>,
     <<32, 65, 32, 10, 10>>}

SeqsUpTo(S, n) == UNION {[1..k -> S] : k \in 0..n}

\* every document of 1..MaxPages pages, every page range for the table of
\* contents and every content start page, into an empty output folder
InitResolve ==
    /\ pages \in SeqsUpTo(PageTexts, MaxPages) \ {<<>>}
    /\ start_page \in 1..MaxPages
    /\ end_page \in start_page..MaxPages
    /\ content_start_page \in 1..(MaxPages + 1)
    /\ RunNotStarted(NoFiles)
    /\ PlayerIdle

NextResolve == ParseToc \/ ExtractChapterTexts

SpecResolve == InitResolve /\ [][NextResolve]_vars

\* the pages first .. last-1 (0-based) that boundary b covers: range(start_page, end_page)
PagesOf(b) == {p \in 0..(Len(pages) - 1) : b.start_page <= p /\ p < b.end_page}

Resolved == pc = "extracted" /\ extracted_chapters # <<>>

\* C5 (as claimed): once the boundaries are resolved, every boundary's last page
\* (end_page - 1, inclusive) is at or after its first, no two boundaries share
\* a page, and the boundaries cover every page from 0 to the last page.
C5_CoversFromPageZero ==
    Resolved =>
        /\ \A i \in 1..Len(extracted_chapters) :
              extracted_chapters[i].end_page - 1 >= extracted_chapters[i].start_page
        /\ \A i, j \in 1..Len(extracted_chapters) :
              i # j => PagesOf(extracted_chapters[i]) \cap PagesOf(extracted_chapters[j]) = {}
        /\ \A p \in 0..(Len(pages) - 1) :
              \E i \in 1..Len(extracted_chapters) : p \in PagesOf(extracted_chapters[i])

\* C5 (amended): once the boundaries are resolved they are ordered by first
\* page; a boundary may be empty (its inclusive last page is one before its
\* first, when the next title is first found on the same page) but never
\* shorter; each boundary ends where the next begins and the last ends at the
\* last page, so that every page from the first located start page, which is at
\* or after content_start_page - 1, to the last page lies in exactly one
\* boundary, and no page before it lies in any.
C5_CoversFromFirstLocated ==
    Resolved =>
        LET b == extracted_chapters
            n == Len(extracted_chapters)
        IN  /\ b[1].start_page >= content_start_page - 1
            /\ \A i \in 1..n : b[i].end_page - 1 >= b[i].start_page - 1
            /\ \A i \in 1..(n - 1) : b[i].end_page = b[i + 1].start_page
            /\ b[n].end_page - 1 = Len(pages) - 1
            /\ \A p \in 0..(Len(pages) - 1) :
                  Cardinality({i \in 1..n : p \in PagesOf(b[i])})
                      = (IF p >= b[1].start_page THEN 1 ELSE 0)

\* C5 witness: three boundaries resolved, the first starting after page 0 and
\* a later one empty because two titles were first found on the same page
C5_Witness ==
    /\ Resolved
    /\ Len(extracted_chapters) >= 2
    /\ extracted_chapters[1].start_page > 0
    /\ \E i \in 1..Len(extracted_chapters) :
          extracted_chapters[i].end_page = extracted_chapters[i].start_page
    /\ \E i \in 1..Len(extracted_chapters) :
          extracted_chapters[i].end_page > extracted_chapters[i].start_page + 1

\* ---------------------------------------------------- the whole pipeline

\* the title of chapter k of the documents below: "A", "B", "C", ...
TitleOf(k) == <<64 + k>>

\* a document whose page 1 is the table of contents, one title per line, and
\* whose pages 2 .. n+1 each open one chapter ("A x", "B x", ...) when located,
\* and hold no title at all ("x") when not
Book(n, located) ==
    <<Concat([k \in 1..n |-> TitleOf(k) \o <<10>>])>>
    \o [k \in 1..n |-> IF located THEN TitleOf(k) \o <<32, 120>> ELSE <<120>>]

\* what an earlier run may have left in output/text_files: the first chapter of
\* another book, a file under the name this run gives its first chapter, and
\* the temp_text.txt of a synthesis that raised
LeftBehind ==
    [n \in {FileName(1, <<90>>), FileName(1, TitleOf(1)), TempTextName} |-> <<122>>]

StaleTextFolders ==
    {[n \in names |-> LeftBehind[n]] : names \in SUBSET (DOMAIN LeftBehind)}

Init ==
    /\ \E n \in 0..MaxChapters, located \in BOOLEAN : pages = Book(n, located)
    /\ start_page = 1
    /\ end_page = 1
    /\ content_start_page = 2
    /\ \E folder \in StaleTextFolders : RunNotStarted(folder)
    /\ PlayerIdle

Next ==
    \/ ParseToc
    \/ ExtractChapterTexts
    \/ SaveChapters
    \/ BuildTasks
    \/ TextToSpeechOk
    \/ TextToSpeechRaises
    \/ FinishBatch
    \/ CreateChaptersMetadata
    \/ MergeAudio

Spec == Init /\ [][Next]_vars

Terminated == pc \in {"done", "exit"}

\* ------------------------------------------------- claims on the pipeline

Range(seq) == {seq[k] : k \in 1..Len(seq)}

RECURSIVE ValidAudioFilesStems(_, _)
\* the stems of the text files of files that are not in skipped, in order
ValidAudioFilesStems(files, skipped) ==
    IF files = <<>> THEN <<>>
    ELSE (IF Head(files) \in skipped THEN <<>> ELSE <<Stem(Head(files))>>)
         \o ValidAudioFilesStems(Tail(files), skipped)

\* the task list holds exactly the files save_chapters wrote in this run
TasksAreThisRuns == Range(tasks) = saved

\* the chapter number save_chapters gave the text file of this stem, 0 if the
\* file is not one this run wrote
NumberOfStem(stem) ==
    IF \E idx \in 1..Len(extracted_chapters) :
          /\ FileName(idx, extracted_chapters[idx].title) \in saved
          /\ Stem(FileName(idx, extracted_chapters[idx].title)) = stem
    THEN CHOOSE idx \in 1..Len(extracted_chapters) :
          Stem(FileName(idx, extracted_chapters[idx].title)) = stem
    ELSE 0

\* the chapters of this run appear in stems by ascending chapter number
AscendingChapters(stems) ==
    \A a, b \in 1..Len(stems) :
        (a < b /\ NumberOfStem(stems[a]) > 0 /\ NumberOfStem(stems[b]) > 0)
            => NumberOfStem(stems[a]) < NumberOfStem(stems[b])

\* C1 (as claimed): in a run whose tasks are this run's text files, a unit
\* whose synthesis failed does not end the batch: when the run has ended, every
\* unit of the batch has been handed to text_to_speech, and the run was failed
\* for the synthesis only if no segment exists.
C1_FailureDoesNotAbortBatch ==
    (Terminated /\ failed # {} /\ TasksAreThisRuns) =>
        /\ attempted = tasks
        /\ error \in {CriticalError, NoAudioProduced}
              => \A k \in 1..Len(audio_files) : audio_files[k] \notin DOMAIN audio_folder

\* C2 (as claimed): when exactly one of N >= 2 chapters failed synthesis (and
\* nothing else went wrong), the run that has ended has written a manifest of
\* N-1 entries: the other chapters, in task order.
C2_OneFailureLeavesTheRest ==
    (Terminated /\ Cardinality(failed) = 1 /\ Len(tasks) >= 2
        /\ TasksAreThisRuns /\ faults = 0) =>
        /\ Len(manifest) = Len(tasks) - 1
        /\ [k \in 1..Len(manifest) |-> manifest[k].title]
              = ValidAudioFilesStems(tasks, failed)

\* C3 (as claimed): the chapters of this run are synthesized, listed in the
\* manifest and listed for concatenation in ascending chapter number.
C3_AscendingChapterOrder ==
    /\ AscendingChapters([k \in 1..Len(attempted) |-> Stem(attempted[k])])
    /\ AscendingChapters([k \in 1..Len(manifest) |-> manifest[k].title])
    /\ AscendingChapters([k \in 1..Len(filelist) |-> Stem(filelist[k])])

\* C6 (as claimed): a run that found candidate titles but located none of
\* them ends with "No chapters were identified", having saved no text unit,
\* synthesized nothing and assembled nothing.
C6_NoLocatedChapterEndsAtResolution ==
    (Terminated /\ chapters # <<>> /\ extracted_chapters = <<>>) =>
        /\ error = NoChaptersIdentified
        /\ saved = {}
        /\ attempted = <<>>
        /\ manifest = <<>>
        /\ filelist = <<>>

\* C10 (as claimed): once the task list is built, the text files in it are
\* exactly the files save_chapters wrote in this run.
C10_TasksAreThisRunsUnits ==
    pc \notin {"start", "parsed", "extracted", "saved"} => TasksAreThisRuns

\* -------------------------------------- create_chapters_metadata on its own

\* a run that stands before step 5
BeforeMetadata ==
    /\ pc = "metadata"
    /\ error = ""
    /\ pages = <<>>
    /\ start_page = 1
    /\ end_page = 1
    /\ content_start_page = 2
    /\ chapters = <<>>
    /\ extracted_chapters = <<>>
    /\ text_folder = NoFiles
    /\ saved = {}
    /\ next_task = Len(tasks) + 1
    /\ attempted = <<>>
    /\ failed = {}
    /\ faults = 0
    /\ manifest = <<>>
    /\ filelist = <<>>
    /\ audio_files = [k \in 1..Len(tasks) |-> AudioName(tasks[k])]

TextNames == {FileName(k, TitleOf(k)) : k \in 1..MaxSegments}

\* every list of up to MaxSegments different text files, over every state of
\* output/audio_files: each file missing, unreadable, or readable with a
\* duration of 0..MaxDuration ms
InitManifest ==
    /\ tasks \in {fs \in SeqsUpTo(TextNames, MaxSegments) :
                     \A a, b \in 1..Len(fs) : a # b => fs[a] # fs[b]}
    /\ BeforeMetadata
    /\ \E present \in SUBSET {AudioName(n) : n \in TextNames} :
          audio_folder \in [present -> [duration : 0..MaxDuration, readable : BOOLEAN]]
    /\ PlayerIdle

NextManifest == CreateChaptersMetadata \/ MergeAudio

SpecManifest == InitManifest /\ [][NextManifest]_vars

MetadataWritten ==
    pc \in {"merge", "done"} \/ (pc = "exit" /\ error \in {NoValidAudioFiles, FFmpegFailed})

\* the list step 4 built and handed to create_chapters_metadata
ListedAudioFiles == [k \in 1..Len(tasks) |-> AudioName(tasks[k])]

\* C4: in the manifest create_chapters_metadata writes for a list of segment
\* files, there is one entry per file that exists and can be read, in list
\* order and under that file's stem; the first entry starts at 0, each entry
\* ends where the next starts, and each entry is as long as its file's
\* measured duration, so a file that was skipped adds nothing to the offsets.
C4_ManifestContiguous ==
    MetadataWritten =>
        LET valid == SelectSeq(ListedAudioFiles,
                               LAMBDA f : f \in DOMAIN audio_folder /\ audio_folder[f].readable)
        IN
        /\ Len(manifest) = Len(valid)
        /\ manifest # <<>> => manifest[1].START = 0
        /\ \A i \in 1..(Len(manifest) - 1) : manifest[i].END = manifest[i + 1].START
        /\ \A i \in 1..Len(manifest) :
              /\ manifest[i].END - manifest[i].START = audio_folder[valid[i]].duration
              /\ manifest[i].title = Stem(valid[i])

\* C4 witness: a manifest of two entries of different positive lengths, written
\* for a list of three files whose middle one was skipped
C4_Witness ==
    /\ pc = "merge"
    /\ Len(manifest) = 2
    /\ Len(tasks) = 3
    /\ audio_files = <<ListedAudioFiles[1], ListedAudioFiles[3]>>
    /\ ListedAudioFiles[2] \in DOMAIN audio_folder
    /\ audio_folder[ListedAudioFiles[2]].duration > 0
    /\ manifest[1].START = 0 /\ manifest[1].END = 2
    /\ manifest[2].START = 2 /\ manifest[2].END = 3

\* ------------------------------------------------ audiophyton.py: the player

RECURSIVE ChaptersGenerated(_, _, _, _)
\* the while loop of pdf_to_audiobook from first_page on: the number of the
\* last Chapter_<n>.mp3 it generates
ChaptersGenerated(first_page, num_pages, pages_per_chapter, chapter) ==
    IF first_page < num_pages
    THEN ChaptersGenerated(Min(first_page + pages_per_chapter, num_pages), num_pages,
                           pages_per_chapter, chapter + 1)
    ELSE chapter - 1

\* pygame.mixer.music.get_busy(): playing, and up to pygame 2.0.0 also paused
get_busy == music = "playing" \/ (music = "paused" /\ busy_when_paused)

\* what add_bookmark writes: f"Chapter {current_chapter}\n"
BookmarkNextChapter(chapter) == [chapter |-> chapter + 1]

BookmarkLine(chapter) == [chapter |-> chapter]

\* select_pdf: the directory is made, then one segment per chapter until the
\* loop ends or get_audio raises
select_pdf ==
    /\ \E num_pages \in 0..MaxPdfPages :
          \E made \in 0..ChaptersGenerated(0, num_pages, PagesPerChapter, 1) :
             /\ segments' = segments \cup (1..made)
             /\ last_op' = [op |-> "select_pdf",
                            result |-> IF made = ChaptersGenerated(0, num_pages, PagesPerChapter, 1)
                                       THEN "ok" ELSE "get_audio raised"]
    /\ dir_exists' = TRUE
    /\ UNCHANGED <<current_chapter, mixer_init, music, busy_when_paused, bookmarks,
                   pipeVars, audio_files, loopVars>>

\* the music after play_audio: loaded and started if the segment exists
AfterPlay(chapter, now) == IF chapter \in segments THEN "playing" ELSE now

PlayResult(chapter) == IF chapter \in segments THEN "ok" ELSE "Audio file not found"

play_audio ==
    /\ mixer_init' = TRUE
    /\ music' = AfterPlay(current_chapter, music)
    /\ last_op' = [op |-> "play_audio", result |-> PlayResult(current_chapter)]
    /\ UNCHANGED <<current_chapter, busy_when_paused, dir_exists, segments, bookmarks,
                   pipeVars, audio_files, loopVars>>

\* pause_audio; get_busy() raises pygame.error while the mixer is not initialized
pause_audio ==
    /\ IF ~mixer_init
       THEN music' = music /\ last_op' = [op |-> "pause_audio", result |-> "pygame.error"]
       ELSE /\ music' = IF get_busy THEN "paused" ELSE music
            /\ last_op' = [op |-> "pause_audio", result |-> "ok"]
    /\ UNCHANGED <<current_chapter, mixer_init, busy_when_paused, dir_exists, segments,
                   bookmarks, pipeVars, audio_files, loopVars>>

\* resume_audio: unpause() only if get_busy()
resume_audio ==
    /\ IF ~mixer_init
       THEN music' = music /\ last_op' = [op |-> "resume_audio", result |-> "pygame.error"]
       ELSE /\ music' = IF get_busy /\ music = "paused" THEN "playing" ELSE music
            /\ last_op' = [op |-> "resume_audio", result |-> "ok"]
    /\ UNCHANGED <<current_chapter, mixer_init, busy_when_paused, dir_exists, segments,
                   bookmarks, pipeVars, audio_files, loopVars>>

\* next_chapter: music.stop() raises pygame.error while the mixer is not
\* initialized, before current_chapter is touched
next_chapter ==
    /\ current_chapter < MaxChapterNo
    /\ IF ~mixer_init
       THEN /\ UNCHANGED <<current_chapter, music>>
            /\ last_op' = [op |-> "next_chapter", result |-> "pygame.error"]
       ELSE /\ current_chapter' = current_chapter + 1
            /\ music' = AfterPlay(current_chapter + 1, "stopped")
            /\ last_op' = [op |-> "next_chapter", result |-> PlayResult(current_chapter + 1)]
    /\ UNCHANGED <<mixer_init, busy_when_paused, dir_exists, segments, bookmarks,
                   pipeVars, audio_files, loopVars>>

\* add_bookmark: open(bookmark_file, "a") raises while the directory is missing
add_bookmark ==
    /\ Len(bookmarks) < MaxBookmarks
    /\ IF ~dir_exists
       THEN /\ bookmarks' = bookmarks
            /\ last_op' = [op |-> "add_bookmark", result |-> "FileNotFoundError"]
       ELSE /\ bookmarks' = Append(bookmarks, BookmarkLine(current_chapter))
            /\ last_op' = [op |-> "add_bookmark", result |-> "ok"]
    /\ UNCHANGED <<current_chapter, mixer_init, music, busy_when_paused, dir_exists,
                   segments, pipeVars, audio_files, loopVars>>

\* music.play() plays the segment once: it ends by itself
TrackEnds ==
    /\ music = "playing"
    /\ music' = "stopped"
    /\ last_op' = [op |-> "track ended", result |-> "ok"]
    /\ UNCHANGED <<current_chapter, mixer_init, busy_when_paused, dir_exists, segments,
                   bookmarks, pipeVars, audio_files, loopVars>>

\* the window is up, nothing converted or played yet, with either pygame
InitPlayer ==
    /\ LoopIdle
    /\ current_chapter = 1
    /\ mixer_init = FALSE
    /\ music = "stopped"
    /\ busy_when_paused \in BOOLEAN
    /\ dir_exists = FALSE
    /\ segments = {}
    /\ bookmarks = <<>>
    /\ last_op = [op |-> "none", result |-> "ok"]
    /\ RunNotStarted(NoFiles)
    /\ pages = <<>>
    /\ start_page = 1
    /\ end_page = 1
    /\ content_start_page = 2

NextPlayer ==
    \/ select_pdf
    \/ play_audio
    \/ pause_audio
    \/ resume_audio
    \/ next_chapter
    \/ add_bookmark
    \/ TrackEnds

SpecPlayer == InitPlayer /\ [][NextPlayer]_vars

\* the PlaybackState of the spec: Stopped, Playing or Paused, and the chapter
PlaybackState == <<current_chapter, music>>

\* C7 (as claimed): pause_audio moves Playing to Paused and changes nothing in
\* Stopped and Paused; resume_audio moves Paused to Playing and changes nothing
\* in Stopped and Playing.
C7_PauseResumeTransitions ==
    [][/\ last_op'.op = "pause_audio"
          => music' = (IF music = "playing" THEN "paused" ELSE music)
       /\ last_op'.op = "resume_audio"
          => music' = (IF music = "paused" THEN "playing" ELSE music)]_vars

\* C8 (as claimed): next_chapter, from any state, sets the chapter index to
\* exactly one more than it was, and leaves the music playing if that chapter's
\* segment exists and stopped, reporting that the audio is not found, if not.
C8_NextChapterAdvancesByOne ==
    [][last_op'.op = "next_chapter" =>
          /\ current_chapter' = current_chapter + 1
          /\ IF current_chapter + 1 \in segments
             THEN music' = "playing" /\ last_op'.result = "ok"
             ELSE music' = "stopped" /\ last_op'.result = "Audio file not found"]_vars

RoundCap == MaxPdfPages + 2

\* end_page without the clamp to the document
NoClamp(first_page, per_chapter, total) == first_page + per_chapter

\* end_page = min(start_page + pages_per_chapter, num_pages)
ChapterStop(first_page, per_chapter, total) == Min(first_page + per_chapter, total)

\* range(start_page, end_page)
PageRange(first_page, stop) == {page \in first_page..(stop - 1) : TRUE}

\* one round of the while loop: the text of the pages is read, Chapter_<n>.mp3
\* is generated, chapter += 1, start_page = end_page
LoopRound ==
    /\ loop_pc = "loop"
    /\ loop_start_page < loop_num_pages
    /\ loop_chapter <= RoundCap
    /\ LET stop == ChapterStop(loop_start_page, loop_per_chapter, loop_num_pages) IN
       /\ generated' = Append(generated, [chapter |-> loop_chapter,
                                          pages   |-> PageRange(loop_start_page, stop)])
       /\ loop_start_page' = stop
    /\ segments' = segments \cup {loop_chapter}
    /\ loop_chapter' = loop_chapter + 1
    /\ UNCHANGED <<loop_pc, loop_num_pages, loop_per_chapter, current_chapter,
                   mixer_init, music, busy_when_paused, dir_exists, bookmarks,
                   last_op, pipeVars, audio_files>>

\* a round in which extract_text or get_audio raises: the call ends there
LoopRaises ==
    /\ loop_pc = "loop"
    /\ loop_start_page < loop_num_pages
    /\ loop_chapter <= RoundCap
    /\ loop_pc' = "raised"
    /\ UNCHANGED <<loop_num_pages, loop_per_chapter, loop_chapter, loop_start_page,
                   generated, current_chapter, mixer_init, music, busy_when_paused,
                   dir_exists, segments, bookmarks, last_op, pipeVars, audio_files>>

\* the condition start_page < num_pages is false: the loop is left
LoopExit ==
    /\ loop_pc = "loop"
    /\ ~(loop_start_page < loop_num_pages)
    /\ loop_pc' = "done"
    /\ UNCHANGED <<loop_num_pages, loop_per_chapter, loop_chapter, loop_start_page,
                   generated, current_chapter, mixer_init, music, busy_when_paused,
                   dir_exists, segments, bookmarks, last_op, pipeVars, audio_files>>

\* pdf_to_audiobook stands before its loop: the directory exists, chapter = 1,
\* start_page = 0; for a PDF of 0..MaxPdfPages pages and pages_per_chapter
\* from -1 to MaxPerChapter or the default
InitChaptering ==
    /\ loop_pc = "loop"
    /\ loop_num_pages \in 0..MaxPdfPages
    /\ loop_per_chapter \in (-1..MaxPerChapter) \cup {PagesPerChapter}
    /\ loop_chapter = 1
    /\ loop_start_page = 0
    /\ generated = <<>>
    /\ current_chapter = 1
    /\ mixer_init = FALSE
    /\ music = "stopped"
    /\ busy_when_paused = FALSE
    /\ dir_exists = TRUE
    /\ segments = {}
    /\ bookmarks = <<>>
    /\ last_op = [op |-> "select_pdf", result |-> "ok"]
    /\ RunNotStarted(NoFiles)
    /\ pages = <<>>
    /\ start_page = 1
    /\ end_page = 1
    /\ content_start_page = 2

NextChaptering == LoopRound \/ LoopRaises \/ LoopExit

\* the interpreter keeps running the loop
SpecChaptering ==
    InitChaptering /\ [][NextChaptering]_vars /\ WF_vars(NextChaptering)

\* the chapters are numbered 1, 2, 3, ...; with pages_per_chapter = p >= 1,
\* chapter k read the pages (k-1)*p .. min(k*p, n) - 1, and once the loop is
\* left every page of the document is in exactly one chapter; with p <= 0 and
\* a document that has pages the loop is never left
ChapteringAsClaimed ==
    LET n == loop_num_pages
        p == loop_per_chapter
    IN  /\ \A k \in 1..Len(generated) :
              /\ generated[k].chapter = k
              /\ p >= 1 => generated[k].pages =
                              {page \in 0..(n - 1) :
                                  (k - 1) * p <= page /\ page < Min(k * p, n)}
        /\ (loop_pc = "done" /\ p >= 1) =>
              /\ \A page \in 0..(n - 1) :
                    Cardinality({k \in 1..Len(generated) : page \in generated[k].pages}) = 1
              /\ Len(generated) = ChaptersGenerated(0, n, p, 1)
        /\ (p <= 0 /\ n > 0) => loop_pc # "done"

\* C11: in pdf_to_audiobook, for every page count n >= 0 and every
\* pages_per_chapter p >= 1 the loop ends; the chapters are numbered 1, 2, 3,
\* ... without gaps, chapter k covers the pages [(k-1)*p, min(k*p, n)), and
\* when the loop is left every page is in exactly one chapter; for p <= 0 and
\* n > 0 the loop condition never becomes false.
C11_FixedSizeChaptering ==
    /\ []ChapteringAsClaimed
    /\ <>(loop_per_chapter < 1 \/ loop_pc \in {"done", "raised"})

\* C11 witness: the loop is left after a 21-page PDF was cut by the default 10
\* pages per chapter into the chapters 1, 2 and 3, the last holding page 20 alone
C11_Witness ==
    /\ loop_pc = "done"
    /\ loop_num_pages = 21
    /\ loop_per_chapter = PagesPerChapter
    /\ Len(generated) = 3
    /\ generated[3] = [chapter |-> 3, pages |-> {20}]
    /\ segments = {1, 2, 3}

====
